---- MODULE Spec2Model ----
(***************************************************************************)
(* Model of src/transcript_api.py: the /transcript request handler, which  *)
(* resolves a video reference, tries the YouTube captions first and falls  *)
(* back to audio download + Whisper transcription.                         *)
(*                                                                         *)
(* Strings are sequences of one-character strings.  Floating point seconds *)
(* are integers counting tenths of a second.  The file system is the set   *)
(* of existing paths under the temporary root.                             *)
(***************************************************************************)
EXTENDS Integers, Sequences, FiniteSets, TLC

----------------------------------------------------------------------------
(* Bounds of the model *)

\* number of requests the server may be handling
NumRequests == 2
\* longest list of entries a captions track / a Whisper result may carry
MaxSegs == 2
\* number of distinct names mkdtemp may draw from
NumTmpNames == 2

Requests == 1..NumRequests
TmpNames == 1..NumTmpNames

----------------------------------------------------------------------------
(* Characters and strings *)

None == <<"<None>">>

Digits == <<"0","1","2","3","4","5","6","7","8","9">>
Upper == <<"A","B","C","D","E","F","G","H","I","J","K","L","M","N","O","P","Q","R","S","T","U","V","W","X","Y","Z">>
Lower == <<"a","b","c","d","e","f","g","h","i","j","k","l","m","n","o","p","q","r","s","t","u","v","w","x","y","z">>

Range(s) == {s[i] : i \in DOMAIN s}

\* the character class [0-9A-Za-z_-]
IdChars == Range(Digits) \cup Range(Upper) \cup Range(Lower) \cup {"_", "-"}

\* the repetition count {11}
IdLen == 11

\* Python's str.strip() / the whitespace the inputs may carry
Whitespace == {" ", "\n", "\t"}

Min(S) == CHOOSE x \in S : \A y \in S : x <= y

----------------------------------------------------------------------------
(* extract_video_id *)

\* re.fullmatch(r"[0-9A-Za-z_-]{11}", s)
FullMatchId(s) == Len(s) = IdLen /\ \A i \in 1..Len(s) : s[i] \in IdChars

\* the literal prefixes of the three URL patterns
P_watch == <<"y","o","u","t","u","b","e",".","c","o","m","/","w","a","t","c","h","?","v","=">>
P_youtu_be == <<"y","o","u","t","u",".","b","e","/">>
P_embed == <<"y","o","u","t","u","b","e",".","c","o","m","/","e","m","b","e","d","/">>

patterns == <<P_watch, P_youtu_be, P_embed>>

\* MatchAt with the group (.{11}) in place of the character class
MatchAt_AnyChar(lit, s, i) ==
    /\ i + Len(lit) + IdLen - 1 <= Len(s)
    /\ SubSeq(s, i, i + Len(lit) - 1) = lit

\* the pattern  lit([0-9A-Za-z_-]{11})  matches s at position i
MatchAt(lit, s, i) ==
    /\ i + Len(lit) + IdLen - 1 <= Len(s)
    /\ SubSeq(s, i, i + Len(lit) - 1) = lit
    /\ \A k \in 0..(IdLen - 1) : s[i + Len(lit) + k] \in IdChars

\* re.search(p, s): group(1) of the leftmost match, None when there is none
Search(lit, s) ==
    LET idx == {i \in 1..Len(s) : MatchAt(lit, s, i)}
    IN  IF idx = {} THEN None
        ELSE LET i == Min(idx)
             IN  SubSeq(s, i + Len(lit), i + Len(lit) + IdLen - 1)

extract_video_id(s) ==
    IF FullMatchId(s) THEN s
    ELSE LET hits == {n \in DOMAIN patterns : Search(patterns[n], s) # None}
         IN  IF hits = {} THEN None
             ELSE Search(patterns[Min(hits)], s)

----------------------------------------------------------------------------
(* format_time and the line building of both sources *)

\* round(seconds) in place of int(seconds)
IntOf_Round(tenths) == (tenths + 5) \div 10

\* int(seconds) of a non-negative number of tenths of a second
IntOf(tenths) == tenths \div 10

RECURSIVE Dec(_)
Dec(n) == IF n < 10 THEN <<Digits[n + 1]>> ELSE Dec(n \div 10) \o <<Digits[(n % 10) + 1]>>

\* the format spec 02d
Pad2(n) == IF n < 10 THEN <<"0">> \o Dec(n) ELSE Dec(n)

format_time(seconds) ==
    LET secs == IntOf(seconds)
        h == secs \div 3600
        m == (secs % 3600) \div 60
        s == secs % 60
    IN  Pad2(h) \o <<":">> \o Pad2(m) \o <<":">> \o Pad2(s)

\* str.replace("\n", " ")
ReplaceNewlines(text) == [i \in DOMAIN text |-> IF text[i] = "\n" THEN " " ELSE text[i]]

\* str.strip()
Strip(text) ==
    LET keep == {i \in DOMAIN text : text[i] \notin Whitespace}
    IN  IF keep = {} THEN <<>>
        ELSE SubSeq(text, Min(keep), CHOOSE j \in keep : \A k \in keep : k <= j)

\* dict.get(key, default)
Get(d, key, default) == IF key \in DOMAIN d THEN d[key] ELSE default

\* "\n\n".join(lines)
RECURSIVE Join(_)
Join(lines) ==
    IF lines = <<>> THEN <<>>
    ELSE IF Len(lines) = 1 THEN lines[1]
    ELSE lines[1] \o <<"\n", "\n">> \o Join(Tail(lines))

\* one block  f"{t}\n{text}"
Block(t, text) == t \o <<"\n">> \o text

\* the loop without its "if text" test
RECURSIVE YoutubeLines_KeepEmpty(_)
YoutubeLines_KeepEmpty(entries) ==
    IF entries = <<>> THEN <<>>
    ELSE LET entry == Head(entries)
             t == format_time(entry["start"])
             text == Strip(ReplaceNewlines(entry["text"]))
         IN  <<Block(t, text)>> \o YoutubeLines_KeepEmpty(Tail(entries))

\* the loop of build_timed_transcript_from_youtube
RECURSIVE YoutubeLines(_)
YoutubeLines(entries) ==
    IF entries = <<>> THEN <<>>
    ELSE LET entry == Head(entries)
             t == format_time(entry["start"])
             text == Strip(ReplaceNewlines(entry["text"]))
         IN  (IF text # <<>> THEN <<Block(t, text)>> ELSE <<>>) \o YoutubeLines(Tail(entries))

\* the loop of build_timed_transcript_from_whisper
RECURSIVE WhisperLines(_)
WhisperLines(segs) ==
    IF segs = <<>> THEN <<>>
    ELSE LET seg == Head(segs)
             start == Get(seg, "start", 0)
             t == format_time(start)
             text == Strip(Get(seg, "text", <<>>))
         IN  (IF text # <<>> THEN <<Block(t, text)>> ELSE <<>>) \o WhisperLines(Tail(segs))

----------------------------------------------------------------------------
(* Inputs: request bodies and collaborator responses *)

ID_A == <<"d","Q","w","4","w","9","W","g","X","c","Q">>
ID_B == <<"a","_","b","-","C","1","D","2","e","3","F">>

U_https == <<"h","t","t","p","s",":","/","/">>
U_www == <<"w","w","w",".">>
U_shorts == <<"y","o","u","t","u","b","e",".","c","o","m","/","s","h","o","r","t","s","/">>
U_watch_t == <<"y","o","u","t","u","b","e",".","c","o","m","/","w","a","t","c","h","?","t","=","1","&","v","=">>
R_garbage == <<"n","o","t"," ","a"," ","u","r","l"," ","o","r"," ","i","d">>

\* values of the "video_url" field that resolve to an identifier
GoodRefs ==
    { ID_A, ID_B,
      U_https \o U_www \o P_watch \o ID_A,
      U_https \o P_youtu_be \o ID_B,
      U_https \o U_www \o P_embed \o ID_A \o <<"?","t","=","1">>,
      U_https \o P_youtu_be \o ID_A \o <<"x","y","z">> }

\* values from which no pattern extracts an identifier
BadRefs ==
    { R_garbage,
      SubSeq(ID_A, 1, IdLen - 1),
      ID_A \o <<"x">>,
      <<" ">> \o ID_A \o <<" ">>,
      U_https \o P_youtu_be \o SubSeq(ID_B, 1, IdLen - 1),
      U_https \o U_www \o U_shorts \o ID_A,
      U_https \o U_www \o U_watch_t \o ID_A }

\* data.get("video_url"): None when the field or the body is missing
VideoUrls == {None, <<>>} \cup GoodRefs \cup BadRefs

\* start times (tenths of a second) and texts a provider may send
Starts == {0, 659}
Texts == { <<"H","i">>, <<" ","\n">>, <<" ","a","\n","b"," ">> }

RECURSIVE SeqsUpTo(_, _)
SeqsUpTo(S, n) ==
    IF n = 0 THEN {<<>>}
    ELSE LET shorter == SeqsUpTo(S, n - 1)
         IN  shorter \cup {Append(q, x) : q \in shorter, x \in S}

\* what transcript_obj.fetch() may return
CaptionEntries == [start : Starts, text : Texts]
RawLists == SeqsUpTo(CaptionEntries, MaxSegs)

\* what result.segments may be: None, or dicts that may lack a key
WhisperSegs == CaptionEntries \cup {[text |-> <<"H","i">>], [start |-> 659]}
NoneResult == [segments_is_None |-> TRUE]
WhisperResults == {NoneResult} \cup {[segments |-> q] : q \in SeqsUpTo(WhisperSegs, MaxSegs)}

\* result.segments or []
SegmentsOrEmpty(result) == IF result = NoneResult THEN <<>> ELSE result.segments

----------------------------------------------------------------------------
(* Exceptions *)

\* base classes of the exceptions the collaborators raise
Bases(e) ==
    CASE e = "TranscriptsDisabled" -> {"CouldNotRetrieveTranscript"}
      [] e = "NoTranscriptFound" -> {"CouldNotRetrieveTranscript"}
      [] e = "VideoUnavailable" -> {"CouldNotRetrieveTranscript"}
      [] e = "CouldNotRetrieveTranscript" -> {"Exception"}
      [] e = "DownloadError" -> {"Exception"}
      [] e = "FileNotFoundError" -> {"OSError"}
      [] e = "OSError" -> {"Exception"}
      [] e = "APIError" -> {"Exception"}
      [] OTHER -> {}

RECURSIVE Mro(_)
Mro(e) == {e} \cup UNION {Mro(b) : b \in Bases(e)}

\* isinstance(e, classes)
IsInstance(e, classes) == Mro(e) \cap classes # {}

\* what each collaborator call may raise
ListErrors == {"TranscriptsDisabled", "VideoUnavailable", "CouldNotRetrieveTranscript", "Exception"}
FetchErrors == {"CouldNotRetrieveTranscript", "Exception"}

\* the except clauses of transcript()
NoCaptionsClasses == {"TranscriptsDisabled", "NoTranscriptFound", "CouldNotRetrieveTranscript"}
CaptionsCatchAll == {"Exception"}
\* a second try that catches download errors only
WhisperCatchAll_Narrow == {"DownloadError"}
WhisperCatchAll == {"Exception"}

----------------------------------------------------------------------------
(* State *)

VARIABLES
    OPENAI_API_KEY, \* process-wide configuration, read at import
    fs,             \* the paths that exist under the temporary root
    pc,             \* pc[r]: where request r is in transcript()
    video_url,      \* video_url[r]: data.get("video_url")
    video_id,       \* video_id[r]
    raw,            \* raw[r]: the fetched captions entries
    exc,            \* exc[r]: the exception in flight, "" when none
    yt_error,       \* yt_error[r]: the exception the captions attempt raised, "" when none
    tmpdir,         \* tmpdir[r]: the name TemporaryDirectory() returned, 0 when none
    audio_path,     \* audio_path[r]: the path download_audio returned
    segments,       \* segments[r]: result.segments or []
    response,       \* response[r]: what transcript() returned
    trace           \* trace[r]: the calls request r has made, in order

vars == <<OPENAI_API_KEY, fs, pc, video_url, video_id, raw, exc, yt_error,
          tmpdir, audio_path, segments, response, trace>>

\* a path under the temporary root: directory d itself (name "") or a file in it
Path(d, name) == [dir |-> d, name |-> name]

NoResponse == [status |-> 0, error |-> "", source |-> "", transcript |-> None]

\* not x, for a string or None
Falsy(x) == x = None \/ x = <<>>

Init ==
    /\ OPENAI_API_KEY \in {<<>>, <<"s","k">>}
    /\ fs = {}
    /\ pc = [r \in Requests |-> IF r = 1 THEN "start" ELSE "idle"]
    /\ video_url \in [Requests -> VideoUrls]
    /\ \A r \in Requests : r # 1 => video_url[r] = None
    /\ video_id = [r \in Requests |-> None]
    /\ raw = [r \in Requests |-> <<>>]
    /\ exc = [r \in Requests |-> ""]
    /\ yt_error = [r \in Requests |-> ""]
    /\ tmpdir = [r \in Requests |-> 0]
    /\ audio_path = [r \in Requests |-> Path(0, "")]
    /\ segments = [r \in Requests |-> <<>>]
    /\ response = [r \in Requests |-> NoResponse]
    /\ trace = [r \in Requests |-> <<>>]

----------------------------------------------------------------------------
(* Helpers of the actions *)

Set(f, r, v) == [f EXCEPT ![r] = v]

Log(r, event) == trace' = Set(trace, r, Append(trace[r], event))

\* return jsonify(body), status
Return(r, status, error, source, text) ==
    /\ response' = Set(response, r, [status |-> status, error |-> error,
                                      source |-> source, transcript |-> text])
    /\ pc' = Set(pc, r, "done")

\* the paths inside directory d, and d itself
Under(d) == {p \in fs : p.dir = d}

----------------------------------------------------------------------------
(* transcript(): request parsing and identifier resolution *)

\* data.get("video_url") and the "if not video_url" test
ReceiveRequest(r) ==
    /\ pc[r] = "start"
    /\ IF Falsy(video_url[r])
       THEN Return(r, 400, "Missing 'video_url' in JSON body", "", None)
       ELSE /\ pc' = Set(pc, r, "resolve")
            /\ UNCHANGED response
    /\ UNCHANGED <<OPENAI_API_KEY, fs, video_url, video_id, raw, exc, yt_error,
                   tmpdir, audio_path, segments, trace>>

\* Resolve without the "if not video_id" test
Resolve_NoCheck(r) ==
    /\ pc[r] = "resolve"
    /\ video_id' = Set(video_id, r, extract_video_id(video_url[r]))
    /\ pc' = Set(pc, r, "yt_list")
    /\ UNCHANGED <<OPENAI_API_KEY, fs, video_url, raw, exc, yt_error,
                   tmpdir, audio_path, segments, response, trace>>

\* video_id = extract_video_id(video_url) and the "if not video_id" test
Resolve(r) ==
    /\ pc[r] = "resolve"
    /\ video_id' = Set(video_id, r, extract_video_id(video_url[r]))
    /\ IF Falsy(video_id'[r])
       THEN Return(r, 400, "Could not extract video_id from URL", "", None)
       ELSE /\ pc' = Set(pc, r, "yt_list")
            /\ UNCHANGED response
    /\ UNCHANGED <<OPENAI_API_KEY, fs, video_url, raw, exc, yt_error,
                   tmpdir, audio_path, segments, trace>>

----------------------------------------------------------------------------
(* build_timed_transcript_from_youtube *)

\* an exception leaves build_timed_transcript_from_youtube (both except
\* clauses of the function re-raise it)
RaiseYoutube(r, e, events) ==
    /\ exc' = Set(exc, r, e)
    /\ yt_error' = Set(yt_error, r, e)
    /\ pc' = Set(pc, r, "yt_except")
    /\ trace' = Set(trace, r, trace[r] \o events \o <<"captions_raise">>)

\* the call of the function and YouTubeTranscriptApi.list_transcripts(video_id)
ListTranscripts(r) ==
    /\ pc[r] = "yt_list"
    /\ \/ /\ pc' = Set(pc, r, "yt_find_manual")
          /\ Log(r, "captions_call")
          /\ UNCHANGED <<exc, yt_error>>
       \/ \E e \in ListErrors : RaiseYoutube(r, e, <<"captions_call">>)
    /\ UNCHANGED <<OPENAI_API_KEY, fs, video_url, video_id, raw,
                   tmpdir, audio_path, segments, response>>

\* transcripts.find_manually_created_transcript(["en"]); NoTranscriptFound is
\* caught inside the function
FindManuallyCreated(r) ==
    /\ pc[r] = "yt_find_manual"
    /\ \E found \in BOOLEAN :
          pc' = Set(pc, r, IF found THEN "yt_fetch" ELSE "yt_find_generated")
    /\ UNCHANGED <<OPENAI_API_KEY, fs, video_url, video_id, raw, exc, yt_error,
                   tmpdir, audio_path, segments, response, trace>>

\* transcripts.find_generated_transcript(["en"])
FindGenerated(r) ==
    /\ pc[r] = "yt_find_generated"
    /\ \/ /\ pc' = Set(pc, r, "yt_fetch")
          /\ UNCHANGED <<exc, yt_error, trace>>
       \/ RaiseYoutube(r, "NoTranscriptFound", <<>>)
    /\ UNCHANGED <<OPENAI_API_KEY, fs, video_url, video_id, raw,
                   tmpdir, audio_path, segments, response>>

\* raw = transcript_obj.fetch()
Fetch(r) ==
    /\ pc[r] = "yt_fetch"
    /\ \/ \E entries \in RawLists :
             /\ raw' = Set(raw, r, entries)
             /\ pc' = Set(pc, r, "yt_format")
             /\ UNCHANGED <<exc, yt_error, trace>>
       \/ \E e \in FetchErrors :
             /\ RaiseYoutube(r, e, <<>>)
             /\ UNCHANGED raw
    /\ UNCHANGED <<OPENAI_API_KEY, fs, video_url, video_id,
                   tmpdir, audio_path, segments, response>>

\* FormatCaptions without the return in the first try of transcript()
FormatCaptions_NoReturn(r) ==
    /\ pc[r] = "yt_format"
    /\ pc' = Set(pc, r, "whisper")
    /\ Log(r, "captions_return")
    /\ UNCHANGED <<OPENAI_API_KEY, fs, video_url, video_id, raw, exc, yt_error,
                   tmpdir, audio_path, segments, response>>

\* the lines loop and the result of the function; transcript() returns it
\* with status 200
FormatCaptions(r) ==
    /\ pc[r] = "yt_format"
    /\ Return(r, 200, "", "youtube_captions", Join(YoutubeLines(raw[r])))
    /\ Log(r, "captions_return")
    /\ UNCHANGED <<OPENAI_API_KEY, fs, video_url, video_id, raw, exc, yt_error,
                   tmpdir, audio_path, segments>>

\* an except clause that answers with an error for the exceptions in kinds
\* and falls through for the others
CaptionsExceptTerminal(r, kinds, status, error) ==
    /\ pc[r] = "yt_except"
    /\ IF exc[r] \in kinds
       THEN Return(r, status, error, "", None)
       ELSE /\ pc' = Set(pc, r, "whisper")
            /\ UNCHANGED response
    /\ exc' = Set(exc, r, "")
    /\ UNCHANGED <<OPENAI_API_KEY, fs, video_url, video_id, raw, yt_error,
                   tmpdir, audio_path, segments, trace>>

\* CaptionsExcept with a terminal clause for an unavailable video
CaptionsExcept_UnavailableTerminal(r) ==
    CaptionsExceptTerminal(r, {"VideoUnavailable"}, 404, "video_unavailable")

\* CaptionsExcept that gives up when the captions could not be retrieved
CaptionsExcept_NoFallback(r) ==
    CaptionsExceptTerminal(r, {"CouldNotRetrieveTranscript"}, 500, "captions failed")

\* CaptionsExcept whose catch-all clause answers 500
CaptionsExcept_UnexpectedTerminal(r) ==
    CaptionsExceptTerminal(r, {"Exception"}, 500, "internal")

\* the except clauses of the first try of transcript(): both fall through
CaptionsExcept(r) ==
    /\ pc[r] = "yt_except"
    /\ IF \/ IsInstance(exc[r], NoCaptionsClasses)
          \/ IsInstance(exc[r], CaptionsCatchAll)
       THEN /\ pc' = Set(pc, r, "whisper")
            /\ exc' = Set(exc, r, "")
       ELSE /\ pc' = Set(pc, r, "escaped")
            /\ UNCHANGED exc
    /\ UNCHANGED <<OPENAI_API_KEY, fs, video_url, video_id, raw, yt_error,
                   tmpdir, audio_path, segments, response, trace>>

----------------------------------------------------------------------------
(* build_timed_transcript_from_whisper *)

\* an exception leaves a statement inside the "with TemporaryDirectory()" block
RaiseInTempDir(r, e) ==
    /\ exc' = Set(exc, r, e)
    /\ pc' = Set(pc, r, "cleanup")

\* WhisperCheckKey without the "if not OPENAI_API_KEY" test
WhisperCheckKey_NoCheck(r) ==
    /\ pc[r] = "whisper"
    /\ Log(r, "whisper_call")
    /\ pc' = Set(pc, r, "mkdtemp")
    /\ UNCHANGED <<OPENAI_API_KEY, fs, video_url, video_id, raw, exc, yt_error,
                   tmpdir, audio_path, segments, response>>

\* the call of the function and its "if not OPENAI_API_KEY" test; the error
\* dict it returns makes transcript() answer 500
WhisperCheckKey(r) ==
    /\ pc[r] = "whisper"
    /\ Log(r, "whisper_call")
    /\ IF Falsy(OPENAI_API_KEY)
       THEN Return(r, 500, "OPENAI_API_KEY not set on server; cannot run ASR fallback.",
                   "error", None)
       ELSE /\ pc' = Set(pc, r, "mkdtemp")
            /\ UNCHANGED response
    /\ UNCHANGED <<OPENAI_API_KEY, fs, video_url, video_id, raw, exc, yt_error,
                   tmpdir, audio_path, segments>>

\* MakeTempDir with one fixed directory for every request
MakeTempDir_Shared(r) ==
    /\ pc[r] = "mkdtemp"
    /\ fs' = fs \cup {Path(1, "")}
    /\ tmpdir' = Set(tmpdir, r, 1)
    /\ pc' = Set(pc, r, "download")
    /\ Log(r, "mkdtemp")
    /\ UNCHANGED <<OPENAI_API_KEY, video_url, video_id, raw, exc, yt_error,
                   audio_path, segments, response>>

\* tempfile.TemporaryDirectory().__enter__(): mkdtemp creates a directory
\* under a name that does not exist yet
MakeTempDir(r) ==
    /\ pc[r] = "mkdtemp"
    /\ \/ \E d \in TmpNames :
             /\ Path(d, "") \notin fs
             /\ fs' = fs \cup {Path(d, "")}
             /\ tmpdir' = Set(tmpdir, r, d)
             /\ pc' = Set(pc, r, "download")
             /\ Log(r, "mkdtemp")
             /\ UNCHANGED exc
       \/ /\ exc' = Set(exc, r, "OSError")
          /\ pc' = Set(pc, r, "wh_except")
          /\ UNCHANGED <<fs, tmpdir, trace>>
    /\ UNCHANGED <<OPENAI_API_KEY, video_url, video_id, raw, yt_error,
                   audio_path, segments, response>>

\* download_audio that swallows the error of ydl.download
download_audio_Swallow(r) ==
    /\ pc[r] = "download"
    /\ Log(r, "download_call")
    /\ LET filename == Path(tmpdir[r], "audio.m4a")
       IN  \/ /\ fs' = fs \cup {filename}
              /\ audio_path' = Set(audio_path, r, filename)
              /\ pc' = Set(pc, r, "open")
           \/ /\ pc' = Set(pc, r, "transcribe")
              /\ UNCHANGED <<fs, audio_path>>
    /\ UNCHANGED <<OPENAI_API_KEY, video_url, video_id, raw, exc, yt_error,
                   tmpdir, segments, response>>

\* audio_path = download_audio(video_url, tmpdir)
download_audio(r) ==
    /\ pc[r] = "download"
    /\ Log(r, "download_call")
    /\ LET filename == Path(tmpdir[r], "audio.m4a")
       IN  \/ /\ fs' = fs \cup {filename}
              /\ audio_path' = Set(audio_path, r, filename)
              /\ pc' = Set(pc, r, "open")
              /\ UNCHANGED exc
           \/ \E partial \in BOOLEAN :
                 /\ fs' = IF partial THEN fs \cup {Path(tmpdir[r], "audio.m4a.part")} ELSE fs
                 /\ RaiseInTempDir(r, "DownloadError")
                 /\ UNCHANGED audio_path
    /\ UNCHANGED <<OPENAI_API_KEY, video_url, video_id, raw, yt_error,
                   tmpdir, segments, response>>

\* open(audio_path, "rb")
OpenAudio(r) ==
    /\ pc[r] = "open"
    /\ IF audio_path[r] \in fs
       THEN /\ pc' = Set(pc, r, "transcribe")
            /\ UNCHANGED exc
       ELSE RaiseInTempDir(r, "FileNotFoundError")
    /\ UNCHANGED <<OPENAI_API_KEY, fs, video_url, video_id, raw, yt_error,
                   tmpdir, audio_path, segments, response, trace>>

\* client.audio.transcriptions.create(...) and segments = result.segments or []
Transcribe(r) ==
    /\ pc[r] = "transcribe"
    /\ Log(r, "transcribe_call")
    /\ \/ \E result \in WhisperResults :
             /\ segments' = Set(segments, r, SegmentsOrEmpty(result))
             /\ pc' = Set(pc, r, "cleanup")
             /\ UNCHANGED exc
       \/ /\ RaiseInTempDir(r, "APIError")
          /\ UNCHANGED segments
    /\ UNCHANGED <<OPENAI_API_KEY, fs, video_url, video_id, raw, yt_error,
                   tmpdir, audio_path, response>>

\* Cleanup that removes the directory on the normal exit only
Cleanup_OnSuccessOnly(r) ==
    /\ pc[r] = "cleanup"
    /\ fs' = IF exc[r] = "" THEN fs \ Under(tmpdir[r]) ELSE fs
    /\ pc' = Set(pc, r, IF exc[r] = "" THEN "wh_format" ELSE "wh_except")
    /\ Log(r, "cleanup")
    /\ UNCHANGED <<OPENAI_API_KEY, video_url, video_id, raw, exc, yt_error,
                   tmpdir, audio_path, segments, response>>

\* TemporaryDirectory.__exit__: the directory and all it holds are removed,
\* on the normal and on the exceptional exit of the with block
Cleanup(r) ==
    /\ pc[r] = "cleanup"
    /\ fs' = fs \ Under(tmpdir[r])
    /\ pc' = Set(pc, r, IF exc[r] = "" THEN "wh_format" ELSE "wh_except")
    /\ Log(r, "cleanup")
    /\ UNCHANGED <<OPENAI_API_KEY, video_url, video_id, raw, exc, yt_error,
                   tmpdir, audio_path, segments, response>>

\* FormatWhisper with the source tag of the captions result
FormatWhisper_CaptionsTag(r) ==
    /\ pc[r] = "wh_format"
    /\ Return(r, 200, "", "youtube_captions", Join(WhisperLines(segments[r])))
    /\ Log(r, "whisper_return")
    /\ UNCHANGED <<OPENAI_API_KEY, fs, video_url, video_id, raw, exc, yt_error,
                   tmpdir, audio_path, segments>>

\* the lines loop and the result of the function; transcript() returns it
\* with status 200 because its source is not "error"
FormatWhisper(r) ==
    /\ pc[r] = "wh_format"
    /\ Return(r, 200, "", "whisper_fallback", Join(WhisperLines(segments[r])))
    /\ Log(r, "whisper_return")
    /\ UNCHANGED <<OPENAI_API_KEY, fs, video_url, video_id, raw, exc, yt_error,
                   tmpdir, audio_path, segments>>

\* WhisperExcept answering 404
WhisperExcept_404(r) ==
    /\ pc[r] = "wh_except"
    /\ Return(r, 404, "no_transcript_available", "", None)
    /\ UNCHANGED <<OPENAI_API_KEY, fs, video_url, video_id, raw, exc, yt_error,
                   tmpdir, audio_path, segments, trace>>

\* the except clause of the second try of transcript()
WhisperExcept(r) ==
    /\ pc[r] = "wh_except"
    /\ IF IsInstance(exc[r], WhisperCatchAll)
       THEN Return(r, 500, "Failed to generate transcript from captions or audio.", "", None)
       ELSE /\ pc' = Set(pc, r, "escaped")
            /\ UNCHANGED response
    /\ UNCHANGED <<OPENAI_API_KEY, fs, video_url, video_id, raw, exc, yt_error,
                   tmpdir, audio_path, segments, trace>>

----------------------------------------------------------------------------
(* Specification *)

Step(r) ==
        \/ ReceiveRequest(r)
        \/ Resolve(r)
        \/ ListTranscripts(r)
        \/ FindManuallyCreated(r)
        \/ FindGenerated(r)
        \/ Fetch(r)
        \/ FormatCaptions(r)
        \/ CaptionsExcept(r)
        \/ WhisperCheckKey(r)
        \/ MakeTempDir(r)
        \/ download_audio(r)
        \/ OpenAudio(r)
        \/ Transcribe(r)
        \/ Cleanup(r)
        \/ FormatWhisper(r)
        \/ WhisperExcept(r)

Next == \E r \in Requests : Step(r)

Spec == Init /\ [][Next]_vars

\* a request handler that can take a step eventually takes it: the handler is
\* straight-line code run by one thread
FairSpec == Spec /\ \A r \in Requests : WF_vars(Step(r))

----------------------------------------------------------------------------
(* Vocabulary of the properties *)

Has(r, event) == \E i \in DOMAIN trace[r] : trace[r][i] = event
Count(r, event) == Cardinality({i \in DOMAIN trace[r] : trace[r][i] = event})

CaptionsEvents == {"captions_call", "captions_raise", "captions_return"}
AsrEvents == {"whisper_call", "mkdtemp", "download_call", "transcribe_call",
              "cleanup", "whisper_return"}
AsrWork == {"mkdtemp", "download_call", "transcribe_call"}

Terminated(r) == pc[r] \in {"done", "escaped"}

\* the captions failures the narrow except clause names
NoUsableCaptions == {"TranscriptsDisabled", "NoTranscriptFound", "CouldNotRetrieveTranscript"}

----------------------------------------------------------------------------
(* Properties *)

C2_FallbackOnce ==
    \A r \in Requests :
        yt_error[r] \in NoUsableCaptions =>
            /\ Count(r, "captions_call") = 1
            /\ Count(r, "whisper_call") <= 1
            /\ Terminated(r) => (pc[r] = "done" /\ Count(r, "whisper_call") = 1)
            /\ \A i \in DOMAIN trace[r] :
                  trace[r][i] = "whisper_call" =>
                      /\ \E j \in 1..(i - 1) : trace[r][j] = "captions_raise"
                      /\ \A j \in DOMAIN trace[r] : j > i => trace[r][j] \notin CaptionsEvents

C2_Witness ==
    \E r \in Requests :
        /\ yt_error[r] = "CouldNotRetrieveTranscript"
        /\ pc[r] = "done"
        /\ Has(r, "whisper_call")

\* C3: the captions attempt has finished before any ASR work starts, and
\* when the captions attempt succeeds the ASR fallback is never invoked.
C3_CaptionsFirst ==
    \A r \in Requests :
        /\ \A i \in DOMAIN trace[r] :
              trace[r][i] \in AsrEvents =>
                  /\ \E j \in 1..(i - 1) : trace[r][j] \in {"captions_raise", "captions_return"}
                  /\ \A j \in DOMAIN trace[r] : j > i => trace[r][j] \notin CaptionsEvents
        /\ Has(r, "captions_return") => \A e \in AsrEvents : ~Has(r, e)
        /\ response[r].source = "youtube_captions" => \A e \in AsrEvents : ~Has(r, e)

C3_Witness ==
    \E r \in Requests :
        /\ pc[r] = "done"
        /\ Has(r, "captions_return")
        /\ response[r].status = 200

\* C4: after a run has terminated, whatever the exit path of its ASR attempt,
\* no temporary directory or audio file the run created still exists.
C4_TempReleased ==
    /\ \A r \in Requests :
          pc[r] \in {"wh_format", "wh_except", "done", "escaped"} =>
              /\ Under(tmpdir[r]) = {}
              /\ audio_path[r] \notin fs
    /\ (\A r \in Requests : pc[r] = "idle" \/ Terminated(r)) => fs = {}

C4_Witness ==
    \E r \in Requests :
        /\ pc[r] = "done"
        /\ exc[r] = "APIError"
        /\ Has(r, "cleanup")
        /\ audio_path[r].name = "audio.m4a"

C6_NoEmptySuccess ==
    \A r \in Requests :
        (pc[r] = "done" /\ response[r].status = 200) => response[r].transcript # <<>>

\* C7: every run terminates with exactly one outcome, a result or an error
\* response; whatever the captions, download or speech-recognition
\* collaborator raises, no exception escapes transcript() and no run is left
\* without a response.
C7_OneOutcome ==
    /\ [](\A r \in Requests :
             /\ pc[r] # "escaped"
             /\ (pc[r] = "done") <=> (response[r] # NoResponse)
             /\ pc[r] = "done" =>
                   \/ /\ response[r].status = 200
                      /\ response[r].error = ""
                      /\ response[r].source \in {"youtube_captions", "whisper_fallback"}
                      /\ response[r].transcript # None
                   \/ /\ response[r].status \in {400, 500}
                      /\ response[r].error # ""
                      /\ response[r].transcript = None)
    /\ [][\A r \in Requests :
             response[r] # NoResponse => response'[r] = response[r]]_vars
    /\ <>(\A r \in Requests : pc[r] \in {"idle", "done"})

C7_Witness ==
    \E r \in Requests :
        /\ pc[r] = "done"
        /\ yt_error[r] = "Exception"
        /\ exc[r] = "APIError"
        /\ response[r].status = 500

C10_BadRequest ==
    \A r \in Requests :
        /\ Falsy(video_url[r]) =>
              /\ pc[r] \in {"idle", "start", "done"}
              /\ trace[r] = <<>>
              /\ pc[r] = "done" =>
                    /\ response[r].status = 400
                    /\ response[r].error = "Missing 'video_url' in JSON body"
        /\ (~Falsy(video_url[r]) /\ pc[r] \notin {"start", "resolve"} /\ video_id[r] = None) =>
              /\ pc[r] = "done"
              /\ trace[r] = <<>>
              /\ fs = {}
              /\ response[r].status = 400
              /\ response[r].error = "Could not extract video_id from URL"

C10_Witness ==
    \E r \in Requests :
        /\ pc[r] = "done"
        /\ ~Falsy(video_url[r])
        /\ video_id[r] = None
        /\ response[r].status = 400

----------------------------------------------------------------------------
(* Identifier resolution on a wider set of references *)

ID_bang == <<"d","Q","w","4","w","9","W","!","X","c","Q">>

RefPrefixes ==
    { <<>>, <<" ">>,
      U_https \o U_www \o P_watch,
      U_https \o P_youtu_be,
      U_https \o U_www \o P_embed,
      U_https \o U_www \o U_shorts,
      U_https \o U_www \o U_watch_t }
RefBodies == {ID_A, ID_B, ID_bang, SubSeq(ID_A, 1, IdLen - 1), <<>>}
RefSuffixes == {<<>>, <<" ">>, <<"x">>, <<"?","t","=","1">>}

\* the values of "video_url" the resolution is run on
References == {pre \o body \o suf : pre \in RefPrefixes, body \in RefBodies, suf \in RefSuffixes}

InitResolve ==
    /\ OPENAI_API_KEY \in {<<>>, <<"s","k">>}
    /\ fs = {}
    /\ pc = [r \in Requests |-> IF r = 1 THEN "start" ELSE "idle"]
    /\ video_url \in [Requests -> References \cup {None}]
    /\ \A r \in Requests : r # 1 => video_url[r] = None
    /\ video_id = [r \in Requests |-> None]
    /\ raw = [r \in Requests |-> <<>>]
    /\ exc = [r \in Requests |-> ""]
    /\ yt_error = [r \in Requests |-> ""]
    /\ tmpdir = [r \in Requests |-> 0]
    /\ audio_path = [r \in Requests |-> Path(0, "")]
    /\ segments = [r \in Requests |-> <<>>]
    /\ response = [r \in Requests |-> NoResponse]
    /\ trace = [r \in Requests |-> <<>>]

\* the part of transcript() up to the first try
NextResolve == \E r \in Requests : ReceiveRequest(r) \/ Resolve(r)

ResolveSpec == InitResolve /\ [][NextResolve]_vars

\* transcript() has got past "if not video_id", or returned there
Resolved(r) == pc[r] \notin {"idle", "start", "resolve"} /\ ~Falsy(video_url[r])

\* the four URL shapes carrying identifier x
FourShapes(x) ==
    { U_https \o U_www \o P_watch \o x,
      U_https \o P_youtu_be \o x,
      U_https \o U_www \o U_shorts \o x,
      U_https \o U_www \o P_embed \o x }

\* C11 as stated: for every valid 11-character identifier X and each of the
\* four URL shapes carrying it (watch?v=X, youtu.be/X, shorts/X, embed/X),
\* extract_video_id returns exactly X.
C11_FourShapes ==
    \A r \in Requests : \A x \in {ID_A, ID_B} :
        (Resolved(r) /\ video_url[r] \in FourShapes(x)) => video_id[r] = x

\* C12 as stated: for every reference that, after trimming surrounding
\* whitespace, is exactly 11 characters of [A-Za-z0-9_-], the resolution
\* succeeds and returns that token.
C12_TrimmedId ==
    \A r \in Requests : \A x \in {ID_A, ID_B} :
        (Resolved(r) /\ video_url[r] \in {x, <<" ">> \o x, x \o <<" ">>, <<" ">> \o x \o <<" ">>})
            => video_id[r] = x

\* C18: whenever extract_video_id returns an identifier it is exactly 11
\* characters of [A-Za-z0-9_-]; otherwise the run ends with the 400 response
\* of the failed resolution, so the captions and ASR adapters are only
\* reached with an identifier of that shape.
C18_CanonicalId ==
    \A r \in Requests :
        Resolved(r) =>
            \/ /\ video_id[r] = None
               /\ pc[r] = "done"
               /\ response[r].status = 400
               /\ trace[r] = <<>>
            \/ /\ video_id[r] # None
               /\ Len(video_id[r]) = 11
               /\ \A i \in DOMAIN video_id[r] :
                     \/ \E j \in DOMAIN Digits : video_id[r][i] = Digits[j]
                     \/ \E j \in DOMAIN Upper : video_id[r][i] = Upper[j]
                     \/ \E j \in DOMAIN Lower : video_id[r][i] = Lower[j]
                     \/ video_id[r][i] \in {"_", "-"}
               /\ pc[r] = "yt_list"

C18_Witness ==
    \E r \in Requests :
        /\ pc[r] = "yt_list"
        /\ video_url[r] = U_https \o P_youtu_be \o ID_B \o <<"x">>
        /\ video_id[r] = ID_B

----------------------------------------------------------------------------
(* The formatting of both sources on a wider set of segments *)

\* start times in tenths of a second: below one second, around the minute and
\* the hour, and at a hundred hours
FmtStarts == {0, 9, 599, 600, 35999, 36000, 37259, 3599999, 3600000}
\* texts that are already trimmed and hold no line break
FmtTexts == { <<"H","i">>, <<"a"," ","b">> }
FmtLists == SeqsUpTo([start : FmtStarts, text : FmtTexts], MaxSegs)

\* request 1 is about to build the lines of the captions it fetched, or of
\* the segments Whisper returned
InitFormat ==
    \E at \in {"yt_format", "wh_format"} : \E list \in FmtLists :
        /\ OPENAI_API_KEY = <<"s","k">>
        /\ fs = {}
        /\ pc = [r \in Requests |-> IF r = 1 THEN at ELSE "idle"]
        /\ video_url = [r \in Requests |-> IF r = 1 THEN ID_A ELSE None]
        /\ video_id = [r \in Requests |-> IF r = 1 THEN ID_A ELSE None]
        /\ raw = [r \in Requests |-> IF r = 1 /\ at = "yt_format" THEN list ELSE <<>>]
        /\ segments = [r \in Requests |-> IF r = 1 /\ at = "wh_format" THEN list ELSE <<>>]
        /\ exc = [r \in Requests |-> ""]
        /\ yt_error = [r \in Requests |->
                          IF r = 1 /\ at = "wh_format" THEN "NoTranscriptFound" ELSE ""]
        /\ tmpdir = [r \in Requests |-> IF r = 1 /\ at = "wh_format" THEN 1 ELSE 0]
        /\ audio_path = [r \in Requests |->
                            IF r = 1 /\ at = "wh_format" THEN Path(1, "audio.m4a")
                            ELSE Path(0, "")]
        /\ response = [r \in Requests |-> NoResponse]
        /\ trace = [r \in Requests |->
                       IF r # 1 THEN <<>>
                       ELSE IF at = "yt_format" THEN <<"captions_call">>
                       ELSE <<"captions_call", "captions_raise", "whisper_call", "mkdtemp",
                              "download_call", "transcribe_call", "cleanup">>]

NextFormat == \E r \in Requests : FormatCaptions(r) \/ FormatWhisper(r)

FormatSpec == InitFormat /\ [][NextFormat]_vars

\* the pieces of a text between runs of two line breaks
RECURSIVE SplitBlocks(_)
SplitBlocks(text) ==
    IF text = <<>> THEN <<>>
    ELSE LET seps == {i \in 1..(Len(text) - 1) : text[i] = "\n" /\ text[i + 1] = "\n"}
         IN  IF seps = {} THEN <<text>>
             ELSE <<SubSeq(text, 1, Min(seps) - 1)>>
                      \o SplitBlocks(SubSeq(text, Min(seps) + 2, Len(text)))

IsDigit(c) == \E d \in DOMAIN Digits : Digits[d] = c

\* the number a string of decimal digits denotes
RECURSIVE NumVal(_)
NumVal(f) ==
    IF f = <<>> THEN 0
    ELSE NumVal(SubSeq(f, 1, Len(f) - 1)) * 10
            + ((CHOOSE d \in DOMAIN Digits : Digits[d] = f[Len(f)]) - 1)

\* block is HH:MM:SS of the whole seconds of seg, a line break, the text of seg
BlockOf(block, seg) ==
    LET nls == {i \in DOMAIN block : block[i] = "\n"}
    IN  /\ nls # {}
        /\ LET ts == SubSeq(block, 1, Min(nls) - 1)
               cols == {i \in DOMAIN ts : ts[i] = ":"}
           IN  /\ SubSeq(block, Min(nls) + 1, Len(block)) = seg.text
               /\ Cardinality(cols) = 2
               /\ LET c1 == Min(cols)
                      c2 == CHOOSE c \in cols : c # c1
                      hh == SubSeq(ts, 1, c1 - 1)
                      mm == SubSeq(ts, c1 + 1, c2 - 1)
                      ss == SubSeq(ts, c2 + 1, Len(ts))
                  IN  /\ \A i \in DOMAIN ts : i \notin cols => IsDigit(ts[i])
                      /\ Len(hh) >= 2 /\ Len(mm) = 2 /\ Len(ss) = 2
                      /\ NumVal(mm) < 60 /\ NumVal(ss) < 60
                      /\ NumVal(hh) * 3600 + NumVal(mm) * 60 + NumVal(ss) = seg.start \div 10

\* the segments request r formatted
SourceSegments(r) == IF response[r].source = "youtube_captions" THEN raw[r] ELSE segments[r]

----------------------------------------------------------------------------
(* Requests handled concurrently *)

\* what the collaborators answer while several requests are in flight
ConcLists == {<<>>, <<[start |-> 659, text |-> <<"H","i">>]>>}
ConcErrors == {"", "NoTranscriptFound", "DownloadError", "APIError", "FileNotFoundError"}

\* every request has arrived; the threads of the server run them interleaved
InitConc ==
    /\ OPENAI_API_KEY \in {<<>>, <<"s","k">>}
    /\ fs = {}
    /\ pc = [r \in Requests |-> "start"]
    /\ video_url \in [Requests -> {ID_A, R_garbage}]
    /\ video_id = [r \in Requests |-> None]
    /\ raw = [r \in Requests |-> <<>>]
    /\ exc = [r \in Requests |-> ""]
    /\ yt_error = [r \in Requests |-> ""]
    /\ tmpdir = [r \in Requests |-> 0]
    /\ audio_path = [r \in Requests |-> Path(0, "")]
    /\ segments = [r \in Requests |-> <<>>]
    /\ response = [r \in Requests |-> NoResponse]
    /\ trace = [r \in Requests |-> <<>>]

\* a step of request r, the collaborators answering from the sets above
ConcStep(r) ==
    /\ Step(r)
    /\ raw'[r] \in ConcLists
    /\ segments'[r] \in ConcLists
    /\ exc'[r] \in ConcErrors

NextConc == \E r \in Requests : ConcStep(r)

ConcSpec == InitConc /\ [][NextConc]_vars

\* request r holds a temporary directory
HoldsTempDir(r) == pc[r] \in {"download", "open", "transcribe", "cleanup"}

\* the response of a request that runs alone with the same video_url and the
\* same collaborator answers
AloneResponse(r) ==
    IF Falsy(video_url[r])
    THEN [status |-> 400, error |-> "Missing 'video_url' in JSON body",
          source |-> "", transcript |-> None]
    ELSE IF video_id[r] = None
    THEN [status |-> 400, error |-> "Could not extract video_id from URL",
          source |-> "", transcript |-> None]
    ELSE IF yt_error[r] = ""
    THEN [status |-> 200, error |-> "", source |-> "youtube_captions",
          transcript |-> Join(YoutubeLines(raw[r]))]
    ELSE IF Falsy(OPENAI_API_KEY)
    THEN [status |-> 500,
          error |-> "OPENAI_API_KEY not set on server; cannot run ASR fallback.",
          source |-> "error", transcript |-> None]
    ELSE IF exc[r] \in {"OSError", "DownloadError", "APIError"}
    THEN [status |-> 500, error |-> "Failed to generate transcript from captions or audio.",
          source |-> "", transcript |-> None]
    ELSE [status |-> 200, error |-> "", source |-> "whisper_fallback",
          transcript |-> Join(WhisperLines(segments[r]))]

\* C14: under any interleaving of requests, each ASR attempt uses a temporary
\* directory of its own, the directory and the audio file of a request exist
\* for as long as the request uses them whatever the other requests clean up,
\* and the response of each request is the one it gets when it runs alone
\* with the same collaborator answers.
C14_Isolated ==
    /\ \A r, q \in Requests :
          (r # q /\ HoldsTempDir(r) /\ HoldsTempDir(q)) => tmpdir[r] # tmpdir[q]
    /\ \A r \in Requests :
          /\ HoldsTempDir(r) => Path(tmpdir[r], "") \in fs
          /\ pc[r] \in {"open", "transcribe"} =>
                (audio_path[r] \in fs /\ audio_path[r].dir = tmpdir[r])
          /\ exc[r] # "FileNotFoundError"
          /\ pc[r] # "escaped"
          /\ pc[r] = "done" => response[r] = AloneResponse(r)

C14_Witness ==
    \E r, q \in Requests :
        /\ r # q
        /\ pc[r] = "transcribe"
        /\ pc[q] = "cleanup"
        /\ exc[q] = ""

----------------------------------------------------------------------------
(* Properties of the results and of the ASR attempt *)

NonBlank(text) == \E i \in DOMAIN text : text[i] \notin {" ", "\n", "\t"}

\* the source segment has a text that is not empty after trimming
HasText(seg) == "text" \in DOMAIN seg /\ NonBlank(seg.text)

\* the segment a kept source segment becomes
Normalised(r, seg) ==
    [start |-> IF "start" \in DOMAIN seg THEN seg.start ELSE 0,
     text |-> IF response[r].source = "youtube_captions"
              THEN Strip(ReplaceNewlines(seg.text)) ELSE Strip(seg.text)]

\* C16: for both sources the blocks of the formatted output are exactly the
\* source segments whose text is not empty after trimming, in the order of
\* the source: none with empty text is emitted, none with text is dropped,
\* and they are not re-sorted.
C16_KeptInOrder ==
    \A r \in Requests :
        (pc[r] = "done" /\ response[r].status = 200) =>
            LET blocks == SplitBlocks(response[r].transcript)
                kept == SelectSeq(SourceSegments(r), HasText)
            IN  /\ Len(blocks) = Len(kept)
                /\ \A i \in DOMAIN blocks : BlockOf(blocks[i], Normalised(r, kept[i]))

C16_Witness ==
    \E r \in Requests :
        /\ pc[r] = "done"
        /\ response[r].source = "youtube_captions"
        /\ Len(raw[r]) = 2
        /\ raw[r][1].start > raw[r][2].start
        /\ raw[r][1].text = <<" ","\n">>
        /\ raw[r][2].text = <<" ","a","\n","b"," ">>

\* the ASR calls of request r, in order
AsrTrace(r) == SelectSeq(trace[r], LAMBDA e : e \in AsrEvents)

IsPrefix(a, b) == Len(a) <= Len(b) /\ a = SubSeq(b, 1, Len(a))

\* C17: inside an ASR attempt the steps are acquire, download, transcribe,
\* release, in that order and each at most once; the transcription is called
\* only after the download of the same run returned the audio file and while
\* the temporary directory and the file exist; a failed download is not
\* followed by a transcription call.
C17_AsrOrder ==
    \A r \in Requests :
        /\ \/ IsPrefix(AsrTrace(r), <<"whisper_call", "mkdtemp", "download_call",
                                      "transcribe_call", "cleanup", "whisper_return">>)
           \/ IsPrefix(AsrTrace(r), <<"whisper_call", "mkdtemp", "download_call", "cleanup">>)
        /\ (pc[r] = "transcribe" \/ Has(r, "transcribe_call")) =>
              /\ tmpdir[r] # 0
              /\ audio_path[r] = Path(tmpdir[r], "audio.m4a")
        /\ pc[r] = "transcribe" =>
              /\ Path(tmpdir[r], "") \in fs
              /\ audio_path[r] \in fs
        /\ exc[r] = "DownloadError" => ~Has(r, "transcribe_call")

C17_Witness ==
    \E r \in Requests :
        /\ pc[r] = "done"
        /\ Has(r, "transcribe_call")
        /\ exc[r] = ""
        /\ response[r].source = "whisper_fallback"

====
